---- MODULE Spec2Model ----
(***************************************************************************)
(* Notification delivery core of VerdictAid:                               *)
(*   app/services/notification_service.py  NotificationManager (registry   *)
(*   of live connections, Redis-backed per-user log) and                   *)
(*   NotificationService (multi-channel fan-out),                          *)
(*   app/services/push_service.py, app/services/email_service.py.          *)
(* Every await of the source is a suspension point of a cooperative task;  *)
(* one action is the code that runs between two suspension points.         *)
(***************************************************************************)
EXTENDS Integers, Sequences, FiniteSets, TLC

(***************************************************************************)
(* Bounds of the model.                                                    *)
(***************************************************************************)
\* settings.MAX_STORED_NOTIFICATIONS, scaled down (config.py:22 sets 100).
MAX_STORED_NOTIFICATIONS == 2
\* settings.NOTIFICATION_RETENTION_DAYS as a number of clock ticks of the
\* store (config.py:23 sets 30 days).
NOTIFICATION_RETENTION == 1
\* Number of send calls started in one behaviour.
MaxSends == 3
\* Largest value datetime.utcnow() returns.
MaxClock == 1
\* Largest number of live connections registered at a time.
MaxConnections == 2
\* Largest limit passed to get_pending_notifications.
MaxLimit == 3
\* Number of send calls started while connections come and go (SpecRegistry).
MaxRegistrySends == 2

Users == {1, 2}
WebSockets == {"ws1", "ws2"}
\* The cooperative tasks that run send calls concurrently.
Tasks == {"t1", "t2"}

\* Python's None (an id is a pair, None the empty tuple).
None == <<>>

(***************************************************************************)
(* The calls the callers make, in the order they are started: the k-th     *)
(* call's entry point, notification_type and data (each call carries its   *)
(* own index in data, as tests/test_notifications.py:179-183 does).        *)
(***************************************************************************)
Call(k) ==
  [kind |-> IF k % 3 = 2 THEN "manager" ELSE "service",
   type |-> IF k % 2 = 1 THEN "document_processed" ELSE "test_notification",
   data |-> [document_id |-> 42, index |-> k]]

(***************************************************************************)
(* The users table and the device directory (rows of user_devices).        *)
(* push_subscription: "null", "malformed" (not JSON), or "valid" JSON.     *)
(***************************************************************************)
user_email == [u \in Users |-> IF u = 1 THEN "u1@example.com" ELSE ""]

Device(id, u, ch, sub, tok, act) ==
  [id |-> id, user_id |-> u, notification_channel |-> ch,
   push_subscription |-> sub, fcm_token |-> tok, is_active |-> act]

DeviceTables ==
  { << Device(1, 1, "email", "null", "null", TRUE),
       Device(2, 1, "web_push", "malformed", "null", TRUE),
       Device(3, 1, "fcm", "null", "tok", TRUE),
       Device(4, 2, "web_push", "null", "null", TRUE),
       Device(5, 2, "fcm", "null", "null", TRUE) >>,
    << Device(1, 1, "web_push", "valid", "null", TRUE),
       Device(2, 1, "fcm", "null", "tok", FALSE),
       Device(3, 2, "email", "null", "null", TRUE),
       Device(4, 2, "fcm", "null", "tok", TRUE) >> }

VARIABLES
  active_connections,  \* NotificationManager.active_connections: user -> list
  manager_redis,       \* NotificationManager._redis is set
  log,                 \* the store: list under key notifications:<user>
  ttl,                 \* the store: time to live of that key, -1 = none
  clock,               \* last value datetime.utcnow() returned
  devices,             \* rows of the user_devices table
  task,                \* the send call each task runs, and where it is
  started,             \* number of send calls started
  appended,            \* history: records pushed to the key since it exists
  completed,           \* history: appends that ran to their end on the key
  closed,              \* the handles whose network session has ended
  push_call            \* the last PushService.send_notification call

vars == << active_connections, manager_redis, log, ttl, clock, devices, task,
           started, appended, completed, closed, push_call >>

(***************************************************************************)
(* Redis list commands on the value of one key.                            *)
(***************************************************************************)
Min(a, b) == IF a < b THEN a ELSE b
Max(a, b) == IF a > b THEN a ELSE b

\* An index of LRANGE/LTRIM (0-based, negative = from the tail) as a
\* 0-based offset.
RedisIndex(list, i) == IF i < 0 THEN Len(list) + i ELSE i

\* Elements start..stop (inclusive, 0-based, Redis rules) of list.
RedisRange(list, start, stop) ==
  LET s == Max(RedisIndex(list, start), 0)
      e == Min(RedisIndex(list, stop), Len(list) - 1)
  IN IF s > e THEN <<>> ELSE SubSeq(list, s + 1, e + 1)

\* Faulty variant of lpush: the value overwrites the head of the list.
lpush_over(list, value) ==
  IF list = <<>> THEN <<value>> ELSE <<value>> \o Tail(list)

\* Faulty variant of lpush: RPUSH, the value goes to the tail.
rpush(list, value) == Append(list, value)

lpush(list, value) == <<value>> \o list

\* Faulty variant of ltrim: keeps the tail, the oldest records.
ltrim_oldest(list) == RedisRange(list, 0 - MAX_STORED_NOTIFICATIONS, 0 - 1)

ltrim(list) == RedisRange(list, 0, MAX_STORED_NOTIFICATIONS - 1)

lrange(list, limit) == RedisRange(list, 0, limit - 1)

\* json.dumps / json.loads of a JSON-native value.
json_dumps(value) == [json |-> value]
json_loads(text) == text.json


(***************************************************************************)
(* The store: a key that does not exist has the empty list and ttl NoKey;  *)
(* a key without expiry has ttl NoExpiry (what the TTL command answers).   *)
(***************************************************************************)
NoKey == 0 - 2
NoExpiry == 0 - 1

\* The values datetime.utcnow() can return after it returned t.
ClockReads(t) == IF t < MaxClock THEN {t, t + 1} ELSE {t}

(***************************************************************************)
(* A task: one send call, its locals, and a record of what it did.         *)
(*   pc              where the call is suspended                           *)
(*   kind            "service": NotificationService.send_notification,     *)
(*                   "manager": NotificationManager.send_notification      *)
(*   message         the message dict; nid the id computed by the store    *)
(*   rec             json.dumps(notification_data), as passed to LPUSH     *)
(*   notification_id the service's local: what the manager returned        *)
(*   idx, cur        position of the running for loop and its element      *)
(*   detached        the list being iterated is no longer in the registry  *)
(*   stayed          the connections registered ever since the live loop   *)
(*                   started (frozen when the loop ends)                   *)
(*   devs            the devices the directory returned                    *)
(*   ret             the value returned to the caller                      *)
(* history: pushed (LPUSH done), stored (the append     *)
(* returned), store_failed (the append raised), live (pushes to            *)
(* connections), consulted (directory queried), invoked (sender calls),    *)
(* mutated (the registry entry changed during the live loop).              *)
(***************************************************************************)
IdleTask ==
  [pc |-> "idle", kind |-> "", user_id |-> 0, message |-> None, nid |-> None,
   rec |-> None, notification_id |-> None, idx |-> 0, cur |-> "",
   detached |-> FALSE, stayed |-> {}, devs |-> <<>>, ret |-> None,
   pushed |-> FALSE, stored |-> FALSE, store_failed |-> FALSE, live |-> <<>>,
   consulted |-> FALSE, invoked |-> <<>>, mutated |-> FALSE]

Init ==
  /\ active_connections = << >>
  /\ manager_redis = FALSE
  /\ log = [u \in Users |-> <<>>]
  /\ ttl = [u \in Users |-> NoKey]
  /\ clock = 0
  /\ devices \in DeviceTables
  /\ task = [s \in Tasks |-> IdleTask]
  /\ started = 0
  /\ appended = [u \in Users |-> <<>>]
  /\ completed = [u \in Users |-> 0]
  /\ closed = {}
  /\ push_call = None

(***************************************************************************)
(* Connection registry.                                                    *)
(***************************************************************************)
Registered(u) == u \in DOMAIN active_connections

Connections(u) == IF Registered(u) THEN active_connections[u] ELSE <<>>

\* list.remove(x): the list without the first element equal to x.
Remove(list, x) ==
  LET i == CHOOSE k \in 1..Len(list) :
             list[k] = x /\ \A j \in 1..(k - 1) : list[j] # x
  IN SubSeq(list, 1, i - 1) \o SubSeq(list, i + 1, Len(list))

InList(list, x) == \E k \in 1..Len(list) : list[k] = x

Range(seq) == {seq[i] : i \in 1..Len(seq)}

\* A connect or disconnect for user u that leaves u the connections list,
\* seen by the tasks whose live loop iterates u's list.
Observe(u, deleted, list) ==
  [s \in Tasks |->
     IF task[s].pc = "live" /\ task[s].user_id = u
     THEN [task[s] EXCEPT !.mutated = TRUE,
                          !.detached = @ \/ deleted,
                          !.stayed = @ \cap Range(list)]
     ELSE task[s]]

\* Number of registered connections, over all users.
RECURSIVE SumLen(_)
SumLen(us) ==
  IF us = {} THEN 0
  ELSE LET u == CHOOSE x \in us : TRUE
       IN Len(active_connections[u]) + SumLen(us \ {u})

TotalConnections == SumLen(DOMAIN active_connections)

\* The registry holds the handle: connect has accepted it (line 31).
accepted(websocket) ==
  \E u \in DOMAIN active_connections : InList(active_connections[u], websocket)

\* await websocket.accept() (line 31) raises for a handle whose session has
\* ended. For a handle that was accepted before, it raises or returns as the
\* handle's class has it (the handle of tests/test_notifications.py:24-30
\* accepts any number of times); lines 32-34 do not look for the handle in
\* the list.
connect(websocket, user_id) ==
  /\ TotalConnections < MaxConnections
  /\ websocket \notin closed
  /\ active_connections' =
       [u \in DOMAIN active_connections \cup {user_id} |->
          IF u = user_id THEN Append(Connections(user_id), websocket)
          ELSE active_connections[u]]
  /\ task' = Observe(user_id, FALSE, Append(Connections(user_id), websocket))
  /\ UNCHANGED << manager_redis, log, ttl, clock, devices, push_call, closed, started, appended,
                  completed >>

\* The exception disconnect(websocket, user_id) raises in this state:
\* active_connections[user_id] (KeyError, line 38) or list.remove
\* (ValueError, line 38); "none" when it returns.
disconnect_raises(websocket, user_id) ==
  IF ~Registered(user_id) THEN "KeyError"
  ELSE IF ~InList(active_connections[user_id], websocket) THEN "ValueError"
  ELSE "none"

\* Faulty variant of prune: the entry stays when its list is empty.
prune_never(registry, user_id) == registry

\* if not self.active_connections[user_id]: del ... (lines 39-40).
prune(registry, user_id) ==
  IF registry[user_id] = <<>>
  THEN [u \in DOMAIN registry \ {user_id} |-> registry[u]]
  ELSE registry

disconnect(websocket, user_id) ==
  \/ /\ disconnect_raises(websocket, user_id) # "none"
     /\ UNCHANGED vars
  \/ /\ disconnect_raises(websocket, user_id) = "none"
     /\ LET rest == Remove(active_connections[user_id], websocket)
        IN /\ active_connections' =
                prune([active_connections EXCEPT ![user_id] = rest], user_id)
           /\ task' = Observe(user_id, rest = <<>>, rest)
     /\ UNCHANGED << manager_redis, log, ttl, clock, devices, push_call, closed, started,
                     appended, completed >>

(***************************************************************************)
(* NotificationManager.send_notification and _store_notification.          *)
(***************************************************************************)
\* datetime.utcnow().isoformat(): the text of the time of the call. No
\* operation reads it back, so the model keeps one text for all times.
isoformat == "utcnow"

\* The message NotificationService.send_notification builds (lines 122-126);
\* a direct caller of the manager passes its own dict {type, data}.
build_message(req) ==
  IF req.kind = "service"
  THEN [type |-> req.type, timestamp |-> isoformat, data |-> req.data]
  ELSE [type |-> req.type, data |-> req.data]

\* message["id"] = notification_id (line 47).
set_id(message, id) ==
  IF "timestamp" \in DOMAIN message
  THEN [type |-> message.type, timestamp |-> message.timestamp,
        data |-> message.data, id |-> id]
  ELSE [type |-> message.type, data |-> message.data, id |-> id]

\* f"{user_id}:{datetime.utcnow().timestamp()}" (line 67).
make_id(user_id, now) == << user_id, now >>

\* notification_data (lines 70-74).
notification_data(id, message) ==
  [id |-> id, timestamp |-> isoformat, data |-> message]

\* Faulty variant of except_return: the id computed before the failure.
except_return_id(t) == t.nid

\* What the manager returns when the append raised (lines 59-61).
except_return(t) == None

\* The manager's send_notification returns value: to the caller (a direct
\* call) or into the service's notification_id (line 129).
manager_return(t, value) ==
  IF t.kind = "manager"
  THEN [t EXCEPT !.pc = "done", !.ret = value]
  ELSE [t EXCEPT !.pc = "devices", !.notification_id = value]

\* The append raised: _store_notification re-raises (lines 89-91), the
\* manager catches (lines 59-61).
store_raise(t) ==
  manager_return([t EXCEPT !.store_failed = TRUE], except_return(t))

\* The next call starts and runs to its first store command: the message
\* is built, the client is obtained (await self.redis, which may raise),
\* the id and the record are built, LPUSH is issued.
begin(s, user_id, req) ==
  /\ task[s].pc = "idle"
  /\ started < MaxSends
  /\ started' = started + 1
  /\ LET t == [IdleTask EXCEPT !.kind = req.kind, !.user_id = user_id,
                               !.message = build_message(req)]
     IN \/ /\ ~manager_redis
           /\ task' = [task EXCEPT ![s] = store_raise(t)]
           /\ UNCHANGED << manager_redis, clock >>
        \/ /\ manager_redis' = TRUE
           /\ \E now \in ClockReads(clock) :
                LET id == make_id(user_id, now)
                IN /\ task' = [task EXCEPT ![s] =
                         [t EXCEPT !.pc = "lpush", !.nid = id,
                            !.rec = json_dumps(
                                      notification_data(id, t.message))]]
                   /\ clock' = now
  /\ UNCHANGED << active_connections, log, ttl, devices, push_call, closed, appended,
                  completed >>

\* NotificationService.send_notification(user_id, type, data, db).
send_notification(s, user_id) ==
  /\ Call(started + 1).kind = "service"
  /\ begin(s, user_id, Call(started + 1))

\* NotificationManager.send_notification(user_id, message), called directly.
manager_send_notification(s, user_id) ==
  /\ Call(started + 1).kind = "manager"
  /\ begin(s, user_id, Call(started + 1))

\* await redis_client.lpush(notification_key, json.dumps(...)) (line 77).
store_lpush(s) ==
  /\ task[s].pc = "lpush"
  /\ LET u == task[s].user_id
     IN \/ /\ log' = [log EXCEPT ![u] = lpush(@, task[s].rec)]
           /\ ttl' = [ttl EXCEPT ![u] = IF @ = NoKey THEN NoExpiry ELSE @]
           /\ appended' = [appended EXCEPT ![u] = Append(@, task[s].rec)]
           /\ task' = [task EXCEPT ![s].pc = "ltrim", ![s].pushed = TRUE]
        \/ /\ task' = [task EXCEPT ![s] = store_raise(@)]
           /\ UNCHANGED << log, ttl, appended >>
  /\ UNCHANGED << active_connections, manager_redis, clock, devices, push_call, closed, started, completed >>

\* await redis_client.ltrim(key, 0, MAX_STORED_NOTIFICATIONS - 1) (line 80).
store_ltrim(s) ==
  /\ task[s].pc = "ltrim"
  /\ LET u == task[s].user_id
     IN \/ /\ log' = [log EXCEPT ![u] = ltrim(@)]
           /\ task' = [task EXCEPT ![s].pc = "expire"]
        \/ /\ task' = [task EXCEPT ![s] = store_raise(@)]
           /\ UNCHANGED log
  /\ UNCHANGED << active_connections, manager_redis, ttl, clock, devices, push_call, closed,
                  started, appended, completed >>

\* The live loop starts (lines 50-51): the iterator yields the first element.
start_broadcast(t) ==
  IF Registered(t.user_id)
  THEN [t EXCEPT !.pc = "live", !.idx = 1,
                 !.cur = active_connections[t.user_id][1],
                 !.stayed = Range(active_connections[t.user_id])]
  ELSE manager_return(t, t.nid)

\* await redis_client.expire(key, retention) (lines 83-86); then the append
\* returns the id (line 88), the message gets it (line 47) and the live
\* loop starts.
store_expire(s) ==
  /\ task[s].pc = "expire"
  /\ LET u == task[s].user_id
     IN \/ /\ ttl' = [ttl EXCEPT ![u] =
                        IF @ = NoKey THEN @ ELSE NOTIFICATION_RETENTION]
           /\ completed' = [completed EXCEPT ![u] =
                              IF InList(appended[u], task[s].rec)
                              THEN @ + 1 ELSE @]
           /\ task' = [task EXCEPT ![s] =
                start_broadcast([@ EXCEPT !.stored = TRUE,
                                   !.message = set_id(@, task[s].nid)])]
        \/ /\ task' = [task EXCEPT ![s] = store_raise(@)]
           /\ UNCHANGED << ttl, completed >>
  /\ UNCHANGED << active_connections, manager_redis, log, clock, devices, push_call, closed,
                  started, appended >>

\* The list object the live loop of t iterates.
iterated(t) == IF t.detached THEN <<>> ELSE Connections(t.user_id)

\* for connection in ...: the iterator's next step after idx elements.
next_connection(t) ==
  IF t.idx < Len(iterated(t))
  THEN [t EXCEPT !.idx = @ + 1, !.cur = iterated(t)[t.idx + 1]]
  ELSE manager_return(t, t.nid)

\* Faulty variant of send_json_raised: the exception leaves the loop and
\* reaches the manager's outer except.
send_json_aborts(t) == manager_return(t, None)

\* What the live loop does when send_json raised (lines 54-56): continue.
send_json_raised(t) == next_connection(t)

\* await connection.send_json(message) (line 53) returns or raises.
\* Faulty variant of registry_after_push: a connection whose push raised is
\* dropped from the registry.
registry_dropping_failed(connection, user_id, ok) ==
  IF ok \/ ~InList(Connections(user_id), connection)
  THEN active_connections
  ELSE prune([active_connections EXCEPT
                ![user_id] = Remove(@, connection)], user_id)

\* The registry after send_json to connection returned (ok) or raised: the
\* handler of lines 54-56 logs and continues, the registry is not touched.
registry_after_push(connection, user_id, ok) == active_connections

\* A handle whose session has ended accepts nothing.
live_push(s) ==
  /\ task[s].pc = "live"
  /\ \/ /\ task[s].cur \notin closed
        /\ task' = [task EXCEPT ![s] = next_connection(
                   [@ EXCEPT !.live = Append(@, [connection |-> task[s].cur,
                                                 ok |-> TRUE])])]
        /\ active_connections' =
             registry_after_push(task[s].cur, task[s].user_id, TRUE)
     \/ /\ task' = [task EXCEPT ![s] = send_json_raised(
                   [@ EXCEPT !.live = Append(@, [connection |-> task[s].cur,
                                                 ok |-> FALSE])])]
        /\ active_connections' =
             registry_after_push(task[s].cur, task[s].user_id, FALSE)
  /\ UNCHANGED << manager_redis, log, ttl, clock, devices, push_call, closed, started,
                  appended, completed >>

(***************************************************************************)
(* The WebSocket endpoint (api/v1/endpoints/notifications.py).             *)
(***************************************************************************)
\* websocket_endpoint(websocket, client_id), lines 26-51: the lookup of
\* notification_service.notification_manager (line 27) raises AttributeError
\* (NotificationService has the attribute manager, notification_service.py
\* line 105); the outer handler closes the socket (lines 49-51). The handle
\* never reaches the registry.
websocket_endpoint(websocket, client_id) ==
  /\ ~accepted(websocket)
  /\ websocket \notin closed
  /\ closed' = closed \cup {websocket}
  /\ UNCHANGED << active_connections, manager_redis, log, ttl, clock, devices, push_call,
                  task, started, appended, completed >>

\* The session of a registered handle ends: the client goes away, or the
\* receive loop stops on an error. The code that owns the session takes no
\* step that changes the registry: the handler of WebSocketDisconnect
\* (lines 46-47) builds the disconnect coroutine and never awaits it, the
\* handler of other errors (lines 49-51) only closes the socket.
session_ends(websocket) ==
  /\ accepted(websocket)
  /\ websocket \notin closed
  /\ closed' = closed \cup {websocket}
  /\ UNCHANGED << active_connections, manager_redis, log, ttl, clock, devices, push_call,
                  task, started, appended, completed >>

\* The store's clock advances by one tick; a key whose time to live has
\* elapsed is deleted.
time_passes ==
  /\ \E u \in Users : ttl[u] > 0
  /\ LET gone == {u \in Users : ttl[u] = 1}
     IN /\ ttl' = [u \in Users |->
                     IF u \in gone THEN NoKey
                     ELSE IF ttl[u] > 0 THEN ttl[u] - 1 ELSE ttl[u]]
        /\ log' = [u \in Users |-> IF u \in gone THEN <<>> ELSE log[u]]
        /\ appended' = [u \in Users |->
                          IF u \in gone THEN <<>> ELSE appended[u]]
        /\ completed' = [u \in Users |->
                           IF u \in gone THEN 0 ELSE completed[u]]
  /\ UNCHANGED << active_connections, manager_redis, clock, devices, push_call, closed, task,
                  started >>


(***************************************************************************)
(* NotificationService.send_notification: the device fan-out.              *)
(***************************************************************************)
\* Faulty variant of user_devices: the query without its filter.
all_devices(user_id) == devices

\* select(UserDevice).filter(UserDevice.user_id == user_id) (lines 152-158).
user_devices(user_id) ==
  SelectSeq(devices, LAMBDA d : d.user_id = user_id)

\* The keys of EmailService.send_notification_email's template_map.
template_map == {"document_processed", "task_completed"}

\* Faulty variant of prepare: an absent credential raises.
prepare_strict(d) ==
  IF d.notification_channel = "email"
  THEN IF user_email[d.user_id] = "" THEN "raise" ELSE "send"
  ELSE IF d.notification_channel = "web_push"
  THEN IF d.push_subscription \in {"null", "malformed"}
       THEN "raise" ELSE "send"
  ELSE IF d.notification_channel = "fcm"
  THEN IF d.fcm_token = "null" THEN "raise" ELSE "send"
  ELSE "skip"

\* What handling one device comes to before any transport is called:
\* "skip" (the credential is absent: lines 162, 176, 188), "raise"
\* (json.loads of the subscription raises, line 181) or "send".
prepare(d) ==
  IF d.notification_channel = "email"
  THEN IF user_email[d.user_id] = "" THEN "skip" ELSE "send"
  ELSE IF d.notification_channel = "web_push"
  THEN IF d.push_subscription = "null" THEN "skip"
       ELSE IF d.push_subscription = "malformed" THEN "raise" ELSE "send"
  ELSE IF d.notification_channel = "fcm"
  THEN IF d.fcm_token = "null" THEN "skip" ELSE "send"
  ELSE "skip"

\* Faulty variant of sender_of: the two push branches exchanged.
sender_swapped(d) ==
  IF d.notification_channel = "email"
  THEN "EmailService.send_notification_email"
  ELSE IF d.notification_channel = "web_push" THEN "PushService.send_fcm"
  ELSE IF d.notification_channel = "fcm" THEN "PushService.send_web_push"
  ELSE "none"

\* The transport the dispatch picks for a device: the if/elif chain of
\* lines 137-142 picks _send_email_notification (which calls
\* EmailService.send_notification_email, line 168), or one of the two push
\* senders, which pass channel="web_push" (line 182) or channel="fcm"
\* (line 194) to PushService.send_notification, whose chain (push_service.py
\* lines 100-113) picks send_web_push or send_fcm.
sender_of(d) ==
  IF d.notification_channel = "email"
  THEN "EmailService.send_notification_email"
  ELSE IF d.notification_channel = "web_push" THEN "PushService.send_web_push"
  ELSE IF d.notification_channel = "fcm" THEN "PushService.send_fcm"
  ELSE "none"

\* The results a sender can report: the email sender reports failure
\* without a transport call for a type outside template_map; any transport
\* may succeed or fail, and the senders catch what it raises.
sender_results(d, message) ==
  IF d.notification_channel = "email" /\ message.type \notin template_map
  THEN {FALSE} ELSE BOOLEAN

(***************************************************************************)
(* PushService.send_notification (push_service.py lines 88-120).           *)
(* A payload is a dict with the keys title and body present or not; a      *)
(* value is JSON null, the empty string or a text.                         *)
(***************************************************************************)
Null == "null"

PayloadKeys == {"title", "body"}

PayloadValues == {Null, "", "Hi", "Report"}

Payloads == UNION {[keys -> PayloadValues] : keys \in SUBSET PayloadKeys}

Channels == {"web_push", "fcm", "sms"}

\* d.get(key, default): the default only when the key is absent.
dict_get(d, key, default) == IF key \in DOMAIN d THEN d[key] ELSE default

\* The title and body of lines 97-98.
push_title(data) == dict_get(data, "title", "New Notification")
push_body(data) == dict_get(data, "body", "You have a new notification")

\* PushService.send_notification(notification_type, subscription, channel,
\* data): the transport of the channel is called with title and body and
\* succeeds or fails (lines 100-113); another channel calls no transport and
\* returns False (lines 114-116).
push_send_notification(channel, data) ==
  /\ \/ /\ channel \in {"web_push", "fcm"}
        /\ \E ok \in BOOLEAN :
             push_call' = [channel |-> channel, data |-> data,
                           transport |-> IF channel = "web_push"
                                         THEN "send_web_push" ELSE "send_fcm",
                           title |-> push_title(data),
                           body |-> push_body(data), result |-> ok]
     \/ /\ channel \notin {"web_push", "fcm"}
        /\ push_call' = [channel |-> channel, data |-> data,
                         transport |-> "none", title |-> Null,
                         body |-> Null, result |-> FALSE]
  /\ UNCHANGED << active_connections, manager_redis, log, ttl, clock, devices,
                  task, started, appended, completed, closed >>

\* The for loop over the devices moves on, or the call returns (line 148).
next_device(t) ==
  IF t.idx < Len(t.devs)
  THEN [t EXCEPT !.idx = @ + 1]
  ELSE [t EXCEPT !.pc = "done", !.ret = t.notification_id]

\* except Exception: ... return None (lines 144-146).
fanout_raised(t) == [t EXCEPT !.pc = "done", !.ret = None]

\* devices = await self._get_user_devices(user_id, db) (line 133).
get_user_devices(s) ==
  /\ task[s].pc = "devices"
  /\ \/ LET devs == user_devices(task[s].user_id)
            t == [task[s] EXCEPT !.consulted = TRUE, !.devs = devs]
        IN task' = [task EXCEPT ![s] =
                      IF devs = <<>>
                      THEN [t EXCEPT !.pc = "done", !.ret = t.notification_id]
                      ELSE [t EXCEPT !.pc = "deliver", !.idx = 1]]
     \/ task' = [task EXCEPT ![s] =
                   fanout_raised([@ EXCEPT !.consulted = TRUE])]
  /\ UNCHANGED << active_connections, manager_redis, log, ttl, clock, devices, push_call, closed,
                  started, appended, completed >>

\* One pass of the loop body (lines 136-142) for the device at idx.
deliver(s) ==
  /\ task[s].pc = "deliver"
  /\ LET t == task[s]
         d == t.devs[t.idx]
     IN \/ /\ prepare(d) = "skip"
           /\ task' = [task EXCEPT ![s] = next_device(t)]
        \/ /\ prepare(d) = "raise"
           /\ task' = [task EXCEPT ![s] = fanout_raised(t)]
        \/ /\ prepare(d) = "send"
           /\ \E ok \in sender_results(d, t.message) :
                task' = [task EXCEPT ![s] = next_device(
                   [t EXCEPT !.invoked = Append(@,
                      [device |-> d.id, sender |-> sender_of(d), ok |-> ok])])]
  /\ UNCHANGED << active_connections, manager_redis, log, ttl, clock, devices, push_call, closed,
                  started, appended, completed >>

\* The caller has the returned value; the task is free for another call.
finish(s) ==
  /\ task[s].pc = "done"
  /\ task' = [task EXCEPT ![s] = IdleTask]
  /\ UNCHANGED << active_connections, manager_redis, log, ttl, clock, devices, push_call, closed,
                  started, appended, completed >>

\* NotificationManager.get_pending_notifications (lines 93-101): the records
\* a read returns in the current state; reachable = FALSE is the store
\* raising, which the except turns into [].
get_pending_notifications(user_id, limit, reachable) ==
  IF reachable
  THEN LET notifications == lrange(log[user_id], limit)
       IN [i \in 1..Len(notifications) |-> json_loads(notifications[i])]
  ELSE <<>>

(***************************************************************************)
(* The whole system: callers start calls on any task, connections come     *)
(* and go, time passes.                                                    *)
(***************************************************************************)
\* The steps of the calls the tasks ts run.
Calls(ts) ==
  \/ \E s \in ts, u \in Users : send_notification(s, u)
  \/ \E s \in ts, u \in Users : manager_send_notification(s, u)
  \/ \E s \in ts : store_lpush(s)
  \/ \E s \in ts : store_ltrim(s)
  \/ \E s \in ts : store_expire(s)
  \/ \E s \in ts : live_push(s)
  \/ \E s \in ts : get_user_devices(s)
  \/ \E s \in ts : deliver(s)
  \/ \E s \in ts : finish(s)

\* The sessions of the WebSocket layer registering and removing connections.
Sessions ==
  \/ \E w \in WebSockets, u \in Users : connect(w, u)
  \/ \E w \in WebSockets, u \in Users : disconnect(w, u)
  \/ \E w \in WebSockets, u \in Users : websocket_endpoint(w, u)
  \/ \E w \in WebSockets : session_ends(w)

\* Direct calls of the push service (tests/test_notifications.py:88-123).
PushCalls ==
  \E channel \in Channels, data \in Payloads :
    push_send_notification(channel, data)

Next == Calls(Tasks) \/ Sessions \/ time_passes \/ PushCalls

Spec == Init /\ [][Next]_vars

(***************************************************************************)
(* The system in several environments, each small enough to explore in       *)
(* full. The steps are those of Next; an environment only fixes what the   *)
(* outside does.                                                           *)
(*   SpecStore     concurrent calls on all tasks while time passes; no     *)
(*                 connection is open and no device is registered.         *)
(*   SpecRegistry  connections come and go while one task runs calls; every *)
(*                 session registers a handle of its own; no device is     *)
(*                 registered.                                             *)
(*   SpecHandles   as SpecRegistry, and a registered handle is passed to   *)
(*                 connect again.                                          *)
(*   SpecIsolation as SpecRegistry, for users with registered devices.     *)
(*   SpecSession   as SpecRegistry, and the sessions of the connections    *)
(*                 end.                                                    *)
(*   SpecFanout    one task runs calls for users with registered devices;  *)
(*                 no connection is open.                                  *)
(*   SpecLifecycle as SpecFanout, while time passes.                       *)
(*   SpecPush      the push service is called directly, with any payload.  *)
(***************************************************************************)
InitNoDevices ==
  /\ active_connections = << >>
  /\ manager_redis = FALSE
  /\ log = [u \in Users |-> <<>>]
  /\ ttl = [u \in Users |-> NoKey]
  /\ clock = 0
  /\ devices = << >>
  /\ task = [s \in Tasks |-> IdleTask]
  /\ started = 0
  /\ appended = [u \in Users |-> <<>>]
  /\ completed = [u \in Users |-> 0]
  /\ closed = {}
  /\ push_call = None

NextStore ==
  \/ \E s \in Tasks, u \in Users : send_notification(s, u)
  \/ \E s \in Tasks, u \in Users : manager_send_notification(s, u)
  \/ \E s \in Tasks : store_lpush(s)
  \/ \E s \in Tasks : store_ltrim(s)
  \/ \E s \in Tasks : store_expire(s)
  \/ \E s \in Tasks : get_user_devices(s)
  \/ \E s \in Tasks : finish(s)
  \/ time_passes

SpecStore == InitNoDevices /\ [][NextStore]_vars

NextRegistry ==
  \/ \E w \in WebSockets, u \in Users : ~accepted(w) /\ connect(w, u)
  \/ \E w \in WebSockets, u \in Users : disconnect(w, u)
  \/ \E u \in Users :
       started < MaxRegistrySends /\ send_notification("t1", u)
  \/ \E u \in Users :
       started < MaxRegistrySends /\ manager_send_notification("t1", u)
  \/ store_lpush("t1")
  \/ store_ltrim("t1")
  \/ store_expire("t1")
  \/ live_push("t1")
  \/ get_user_devices("t1")
  \/ finish("t1")

SpecRegistry == InitNoDevices /\ [][NextRegistry]_vars

NextSession ==
  \/ NextRegistry
  \/ \E w \in WebSockets, u \in Users : websocket_endpoint(w, u)
  \/ \E w \in WebSockets : session_ends(w)

SpecSession == InitNoDevices /\ [][NextSession]_vars

NextHandles ==
  \/ NextRegistry
  \/ \E w \in WebSockets, u \in Users : accepted(w) /\ connect(w, u)

SpecHandles == InitNoDevices /\ [][NextHandles]_vars

NextIsolation ==
  \/ NextRegistry
  \/ deliver("t1")

SpecIsolation == Init /\ [][NextIsolation]_vars

SpecPush == InitNoDevices /\ [][PushCalls]_vars

NextFanout ==
  \/ \E u \in Users : send_notification("t1", u)
  \/ \E u \in Users : manager_send_notification("t1", u)
  \/ store_lpush("t1")
  \/ store_ltrim("t1")
  \/ store_expire("t1")
  \/ get_user_devices("t1")
  \/ deliver("t1")
  \/ finish("t1")

SpecFanout == Init /\ [][NextFanout]_vars

NextLifecycle ==
  \/ NextFanout
  \/ time_passes

SpecLifecycle == Init /\ [][NextLifecycle]_vars

(***************************************************************************)
(* Properties.                                                             *)
(***************************************************************************)
Reverse(seq) == [i \in 1..Len(seq) |-> seq[Len(seq) + 1 - i]]

IsPrefix(a, b) == Len(a) <= Len(b) /\ \A i \in 1..Len(a) : a[i] = b[i]

Loads(seq) == [i \in 1..Len(seq) |-> json_loads(seq[i])]

\* The connections a live loop pushed to, in order.
Pushed(t) == [i \in 1..Len(t.live) |-> t.live[i].connection]

\* The manager's call of task s has returned.
ManagerReturned(s) == task[s].pc \in {"devices", "deliver", "done"}

\* What the manager's call of task s returned.
ManagerResult(s) ==
  IF task[s].kind = "manager" THEN task[s].ret ELSE task[s].notification_id

\* C1: whenever the append of a NotificationService.send_notification call
\* succeeded, the call returns that event's id, never None, whatever the
\* fan-out did, and a following get_pending_notifications returns the event.
C1_AppendedSendReturnsId ==
  \A s \in Tasks :
    (task[s].pc = "done" /\ task[s].kind = "service" /\ task[s].stored)
      => /\ task[s].ret = task[s].nid
         /\ \E r \in Range(get_pending_notifications(
                         task[s].user_id, MAX_STORED_NOTIFICATIONS, TRUE)) :
              r.id = task[s].nid

\* C2: a delivery that fails for one device (the sender reports failure, or
\* preparing the delivery raises) never keeps the loop from handling each of
\* the user's other devices: a finished send has handled every device the
\* directory returned.
C2_EveryDeviceHandled ==
  \A s \in Tasks :
    (task[s].pc = "done" /\ task[s].devs # <<>>)
      => task[s].idx = Len(task[s].devs)

\* C3: a send whose append failed attempts no fan-out: no push to a live
\* connection, no query of the device directory, no sender call.
C3_NoFanoutAfterPersistFailed ==
  \A s \in Tasks :
    task[s].store_failed
      => /\ task[s].live = <<>>
         /\ ~task[s].consulted
         /\ task[s].invoked = <<>>

\* C4: when the store cannot be reached during the append, the manager's
\* send_notification returns None, and so does the service's.
C4_StoreFailureReturnsNone ==
  \A s \in Tasks :
    task[s].store_failed
      => /\ ManagerReturned(s) => ManagerResult(s) = None
         /\ task[s].pc = "done" => task[s].ret = None

\* C4 witness: a service call and a direct manager call have both returned
\* after their append raised once LPUSH was issued.
C4_Witness ==
  \E s \in Tasks :
    /\ task[s].pc = "done" /\ task[s].store_failed /\ task[s].nid # None
    /\ task[s].kind = "service" /\ task[s].consulted

\* C5: within one send, persistence precedes fan-out: a connection is
\* pushed the message, or a sender is called, only for an event whose record
\* has been pushed to the user's log.
C5_PersistBeforeFanout ==
  \A s \in Tasks :
    (task[s].live # <<>> \/ task[s].invoked # <<>>) => task[s].pushed

\* C6: after N > MAX_STORED_NOTIFICATIONS completed appends to a user's log
\* (none failed or in flight), get_pending_notifications(user, N) returns
\* exactly the MAX_STORED_NOTIFICATIONS most recently appended records, most
\* recent first.
C6_BoundedHistory ==
  \A u \in Users :
    (completed[u] > MAX_STORED_NOTIFICATIONS /\ Len(appended[u]) = completed[u])
      => get_pending_notifications(u, completed[u], TRUE)
           = Loads(Reverse(SubSeq(appended[u],
                                  completed[u] - MAX_STORED_NOTIFICATIONS + 1,
                                  completed[u])))

\* C6 witness: more than MAX_STORED_NOTIFICATIONS appends have completed on
\* one user's log, and nothing else was pushed to it.
C6_Witness ==
  \E u \in Users :
    /\ completed[u] > MAX_STORED_NOTIFICATIONS
    /\ Len(appended[u]) = completed[u]
    /\ \A s \in Tasks : task[s].pc = "idle"

\* C7: in every state, between the store steps of an append too, a user's log
\* holds at most MAX_STORED_NOTIFICATIONS records, so no read returns more.
C7_LogNeverExceedsMax ==
  \A u \in Users :
    /\ Len(log[u]) <= MAX_STORED_NOTIFICATIONS
    /\ \A limit \in 0..MaxLimit :
         Len(get_pending_notifications(u, limit, TRUE))
           <= MAX_STORED_NOTIFICATIONS

\* C8: get_pending_notifications returns the retained records most recently
\* pushed first, in the reverse of the order in which they were pushed to the
\* log, also when concurrent sends pushed them.
C8_ReverseInsertionOrder ==
  \A u \in Users : \A limit \in 0..MaxLimit :
    IsPrefix(get_pending_notifications(u, limit, TRUE),
             Loads(Reverse(appended[u])))

\* C8 witness: two sends for the same user are both between their LPUSH and
\* the end of their append, and a read returns both records.
C8_Witness ==
  \E u \in Users :
    /\ \A s \in Tasks :
         task[s].user_id = u /\ task[s].pc \in {"ltrim", "expire"}
    /\ Len(get_pending_notifications(u, MaxLimit, TRUE)) >= 2
    /\ log[u][1] # log[u][2]

\* C9: disconnect of a connection that is not registered (a second
\* disconnect, or a user without registry entry) raises no error.
C9_DisconnectNeverRaises ==
  \A w \in WebSockets, u \in Users :
    ~InList(Connections(u), w) => disconnect_raises(w, u) = "none"

\* C10: when a live loop ends and the user's connections did not change
\* while it ran, every connection of the user was pushed the message, those
\* after a push that raised too, and the manager returns the event's id.
C10_BroadcastIsolation ==
  [][\A s \in Tasks :
       (task[s].pc = "live" /\ ~task'[s].mutated)
         => /\ IsPrefix(Pushed(task'[s]), Connections(task[s].user_id))
            /\ task'[s].pc # "live"
                 => /\ Pushed(task'[s]) = Connections(task[s].user_id)
                    /\ IF task'[s].kind = "manager"
                       THEN task'[s].ret = task[s].nid
                       ELSE task'[s].notification_id = task[s].nid]_vars

\* C10 witness: a live loop has ended whose first push raised and whose
\* second push was accepted.
C10_Witness ==
  \E s \in Tasks :
    /\ ManagerReturned(s) /\ ~task[s].mutated
    /\ Len(task[s].live) = 2
    /\ ~task[s].live[1].ok /\ task[s].live[2].ok

\* Number of elements of seq equal to x.
Count(seq, x) == Cardinality({i \in 1..Len(seq) : seq[i] = x})

\* C11: under any interleaving of connect and disconnect with a live loop of
\* the same user, every connection that stays registered for the user from
\* the start to the end of the loop gets exactly one push attempt: none is
\* skipped, none is pushed the message twice.
C11_StayingConnectionPushedOnce ==
  \A s \in Tasks :
    (ManagerReturned(s) /\ task[s].stored)
      => \A w \in task[s].stayed : Count(Pushed(task[s]), w) = 1

\* C12: once a session has ended (the client disconnected, or the receive
\* loop stopped on an error), the registry no longer holds its handle, so no
\* later send attempts a push to it.
C12_EndedSessionNotRegistered ==
  \A w \in closed : ~accepted(w)

\* C13: a send never adds or removes a connection: every step of a send
\* call leaves the registry as it was, and a connection whose push raised
\* is registered after the push as it was before.
C13_SendLeavesRegistry ==
  [][\A s \in Tasks :
       (task'[s].pc # task[s].pc \/ task'[s].live # task[s].live)
         => active_connections' = active_connections]_vars

\* C13 witness: a live loop has ended in which a push raised, and the
\* connection of that push is registered.
C13_Witness ==
  \E s \in Tasks :
    /\ ManagerReturned(s) /\ ~task[s].mutated
    /\ \E i \in 1..Len(task[s].live) :
         /\ ~task[s].live[i].ok
         /\ InList(Connections(task[s].user_id), task[s].live[i].connection)

\* C14: after connect(connection, user) the user has a registry entry that
\* contains the connection, and after any connect or disconnect the registry
\* holds no user entry with an empty list: disconnecting a user's last
\* connection removes the entry.
C14_NoEmptyEntry ==
  [][/\ \A u \in DOMAIN active_connections' : active_connections'[u] # <<>>
     /\ \A w \in WebSockets, u \in Users :
          connect(w, u) => /\ u \in DOMAIN active_connections'
                           /\ InList(active_connections'[u], w)]_vars

\* C14 witness: the last connection of user 1 was disconnected while a live
\* loop iterated user 1's list, user 1 has no entry and user 2 has one.
C14_Witness ==
  /\ ~Registered(1) /\ Registered(2)
  /\ \E s \in Tasks : task[s].user_id = 1 /\ task[s].detached

\* C15: the return of a service send waits only for the append: once the
\* event is persisted the call is not suspended in a push to a connection
\* or in a sender's delivery, so a delivery that never completes cannot
\* keep the call from returning.
C15_ReturnWaitsOnlyForPersistence ==
  \A s \in Tasks :
    (task[s].kind = "service" /\ task[s].stored)
      => task[s].pc \notin {"live", "deliver"}

\* The row of the device directory with the given id.
DeviceById(id) == CHOOSE d \in Range(devices) : d.id = id

\* C16: no Email, Web Push or FCM sender is invoked for a device whose
\* is_active is false.
C16_OnlyActiveDevices ==
  \A s \in Tasks : \A i \in 1..Len(task[s].invoked) :
    DeviceById(task[s].invoked[i].device).is_active

\* The clock value an id was derived from.
IdTime(record) == json_loads(record).id[2]

\* C17: for each user, the ids of the records pushed to the log are strictly
\* increasing in the order in which they were pushed, hence pairwise
\* distinct, also for appends that read the same clock value.
C17_IdsStrictlyIncreasing ==
  \A u \in Users : \A i, j \in 1..Len(appended[u]) :
    i < j => IdTime(appended[u][i]) < IdTime(appended[u][j])

\* C18: get_pending_notifications(user, limit) returns at most limit
\* records, the most recent ones first, for every limit from 0 on.
C18_AtMostLimit ==
  \A u \in Users : \A limit \in 0..MaxLimit :
    LET result == get_pending_notifications(u, limit, TRUE)
    IN /\ Len(result) <= limit
       /\ IsPrefix(result, Loads(log[u]))

\* C19: whenever an append succeeds, the user's log has an expiry equal to
\* the retention window counted from that append.
C19_ExpiryRefreshed ==
  [][\A s \in Tasks :
       (~task[s].stored /\ task'[s].stored)
         => ttl'[task[s].user_id] = NOTIFICATION_RETENTION]_vars

\* C20: handling one device never raises past the sender: whatever the
\* device's data, the delivery the loop is about to run returns.
C20_SenderNeverRaises ==
  \A s \in Tasks :
    task[s].pc = "deliver" => prepare(task[s].devs[task[s].idx]) # "raise"

\* The credential of the device's channel is absent.
credential_absent(d) ==
  \/ d.notification_channel = "email" /\ user_email[d.user_id] = ""
  \/ d.notification_channel = "web_push" /\ d.push_subscription = "null"
  \/ d.notification_channel = "fcm" /\ d.fcm_token = "null"

\* C21: a device whose channel credential is absent is skipped silently: the
\* pass of the loop for it calls no sender and raises nothing, and the loop
\* goes on to the next device, or returns the manager's result after the last.
C21_AbsentCredentialSkipped ==
  [][\A s \in Tasks :
       (task[s].pc = "deliver" /\ task'[s] # task[s]
          /\ credential_absent(task[s].devs[task[s].idx]))
         => /\ task'[s].invoked = task[s].invoked
            /\ IF task[s].idx < Len(task[s].devs)
               THEN task'[s].pc = "deliver" /\ task'[s].idx = task[s].idx + 1
               ELSE /\ task'[s].pc = "done"
                    /\ task'[s].ret = task[s].notification_id]_vars

\* C21 witness: a send has returned the event's id after it skipped an
\* email device whose user has no address and called the sender of the
\* device after it.
C21_Witness ==
  \E s \in Tasks :
    /\ task[s].pc = "done" /\ task[s].ret = task[s].nid /\ task[s].nid # None
    /\ Len(task[s].devs) = 2
    /\ credential_absent(task[s].devs[1])
    /\ Len(task[s].invoked) = 1
    /\ task[s].invoked[1].device = task[s].devs[2].id

\* A value Python takes as false in "x or default".
Falsy(v) == v \in {Null, ""}

\* payload.get(key) or default.
GetOr(data, key, default) ==
  IF key \in DOMAIN data /\ ~Falsy(data[key]) THEN data[key] ELSE default

\* C22: for Web Push and FCM deliveries the title is payload.get("title") or
\* "New Notification" and the body is payload.get("body") or "You have a new
\* notification": absent, null or empty yields the default, any other value
\* is passed unchanged, the same for both channels.
C22_TitleBodyDefaults ==
  (push_call # None /\ push_call.transport # "none")
    => /\ push_call.title = GetOr(push_call.data, "title", "New Notification")
       /\ push_call.body =
            GetOr(push_call.data, "body", "You have a new notification")

\* The send of task s has returned an id and its record is the only one
\* pushed to the user's log.
SucceededOnEmptyLog(s) ==
  /\ task[s].pc = "done" /\ task[s].ret # None
  /\ appended[task[s].user_id] = << task[s].rec >>

\* C23: after NotificationManager.send_notification(user, m) succeeds on an
\* empty log, get_pending_notifications(user) returns exactly one record,
\* whose data field equals m, the caller's message object as it is after the
\* call.
C23_ManagerRoundTrip ==
  \A s \in Tasks :
    (task[s].kind = "manager" /\ SucceededOnEmptyLog(s))
      => LET result ==
               get_pending_notifications(task[s].user_id, MaxLimit, TRUE)
         IN Len(result) = 1 /\ result[1].data = task[s].message

\* C24: after NotificationService.send_notification(user, type, data)
\* succeeds on an empty log, get_pending_notifications(user) returns exactly
\* one record, whose data field equals the mapping {type, data} of the call's
\* arguments.
C24_ServiceRoundTrip ==
  \A s \in Tasks :
    (task[s].kind = "service" /\ SucceededOnEmptyLog(s))
      => LET result ==
               get_pending_notifications(task[s].user_id, MaxLimit, TRUE)
         IN /\ Len(result) = 1
            /\ result[1].data = [type |-> task[s].message.type,
                                 data |-> task[s].message.data]

\* C25: whenever a send returned None because a store command of its append
\* failed (LPUSH, LTRIM or EXPIRE), the user's log holds no record of that
\* event, and no later get_pending_notifications returns it.
C25_FailedAppendLeavesNoRecord ==
  \A s \in Tasks :
    (task[s].pc = "done" /\ task[s].store_failed /\ task[s].rec # None)
      => /\ ~InList(log[task[s].user_id], task[s].rec)
         /\ \A limit \in 0..MaxLimit :
              ~InList(get_pending_notifications(task[s].user_id, limit, TRUE),
                      json_loads(task[s].rec))

\* C26: in every state, between the store steps of an append and after an
\* append that failed partway too, a user's non-empty log has an expiry set.
C26_LogAlwaysExpires ==
  \A u \in Users : log[u] # <<>> => ttl[u] > 0

\* C27: a handle appears at most once in a user's connection list after any
\* sequence of connect and disconnect calls, connecting the same handle twice
\* included, so one send pushes to it at most once and one disconnect removes
\* it completely.
C27_HandleAtMostOnce ==
  \A u \in DOMAIN active_connections : \A w \in WebSockets :
    Count(active_connections[u], w) <= 1

\* The step is a connect, a disconnect or a step of a send for user a.
StepFor(a) ==
  \/ \E w \in WebSockets : connect(w, a) \/ disconnect(w, a)
  \/ \E s \in Tasks :
       task'[s] # task[s] /\ (task[s].user_id = a \/ task'[s].user_id = a)

\* C28: a send, connect or disconnect for user a never changes the log or
\* the registry entry of another user b, and a send for a takes the
\* connections it pushes to from a's entry only and the devices it delivers
\* to from a's devices only.
C28_UsersIsolated ==
  [][\A a \in Users :
       StepFor(a)
         => /\ \A b \in Users \ {a} :
                 /\ log'[b] = log[b]
                 /\ (b \in DOMAIN active_connections')
                      = (b \in DOMAIN active_connections)
                 /\ b \in DOMAIN active_connections
                      => active_connections'[b] = active_connections[b]
            /\ \A s \in Tasks :
                 task'[s].user_id = a
                   => /\ (task'[s].pc = "live"
                          /\ (task[s].pc # "live"
                                \/ task'[s].idx # task[s].idx))
                         => InList(Connections(a), task'[s].cur)
                      /\ \A i \in 1..Len(task'[s].devs) :
                           task'[s].devs[i].user_id = a
                      /\ \A i \in 1..Len(task'[s].invoked) :
                           DeviceById(task'[s].invoked[i].device).user_id = a]_vars

\* C28 witness: a send for user 1 has stored its record, pushed to a
\* connection and called a sender while user 2, who owns devices, has a
\* connection registered; user 2's log is empty.
C28_Witness ==
  \E s \in Tasks :
    /\ task[s].pc = "done" /\ task[s].user_id = 1
    /\ task[s].live # <<>> /\ task[s].invoked # <<>>
    /\ log[1] # <<>> /\ log[2] = <<>>
    /\ Registered(2) /\ user_devices(2) # <<>>

\* C29: a record of a user's log is never modified after it was pushed and
\* leaves the log only by the truncation to the cap or by the expiry of the
\* log: every step leaves a log as it is, pushes one record in front of it,
\* cuts it to its first MAX_STORED_NOTIFICATIONS records, or expires it.
C29_RecordsImmutable ==
  [][\A u \in Users :
       \/ log'[u] = log[u]
       \/ /\ Len(log'[u]) = Len(log[u]) + 1
          /\ Tail(log'[u]) = log[u]
       \/ /\ Len(log[u]) > MAX_STORED_NOTIFICATIONS
          /\ log'[u] = SubSeq(log[u], 1, MAX_STORED_NOTIFICATIONS)
       \/ /\ ttl[u] = 1 /\ ttl'[u] = NoKey
          /\ log'[u] = <<>>]_vars

\* C29 witness: a send whose fan-out raised has returned None, its record is
\* in the log, and an earlier record of the log has been cut off by the cap.
C29_Witness ==
  \E s \in Tasks :
    /\ task[s].pc = "done" /\ task[s].stored /\ task[s].ret = None
    /\ InList(log[task[s].user_id], task[s].rec)
    /\ Len(appended[task[s].user_id]) > MAX_STORED_NOTIFICATIONS
    /\ Len(log[task[s].user_id]) = MAX_STORED_NOTIFICATIONS

\* The sender of each channel kind.
SenderOfKind ==
  [email |-> "EmailService.send_notification_email",
   web_push |-> "PushService.send_web_push",
   fcm |-> "PushService.send_fcm"]

\* C30: for every device a send processed, the sender invoked is the one of
\* the device's channel kind (email to Email, web_push to Web Push, fcm to
\* FCM), and no device is delivered to more than once.
C30_MatchingSenderOnce ==
  \A s \in Tasks :
    LET calls == task[s].invoked
    IN /\ \A i \in 1..Len(calls) :
            calls[i].sender
              = SenderOfKind[DeviceById(calls[i].device).notification_channel]
       /\ \A i, j \in 1..Len(calls) :
            calls[i].device = calls[j].device => i = j

\* C30 witness: a send has returned after it called the Web Push sender for
\* a web_push device and the FCM sender for an fcm device of one user.
C30_Witness ==
  \E s \in Tasks :
    /\ task[s].pc = "done"
    /\ Len(task[s].invoked) = 2
    /\ task[s].invoked[1].sender = "PushService.send_web_push"
    /\ task[s].invoked[2].sender = "PushService.send_fcm"

====
